---- MODULE Spec2Model ----
(***************************************************************************)
(* Model of generate_resumes.py: the batch driver that renders twenty      *)
(* resume pages in ten quality variations and records one manifest entry   *)
(* per page, together with the helpers it calls.                           *)
(*                                                                         *)
(* Strings are ASCII transliterations of the Japanese literals.  Formatted *)
(* strings are sequences of their pieces, so that formatting and splitting *)
(* are real conversions.                                                   *)
(***************************************************************************)
EXTENDS Integers, Sequences, FiniteSets

VARIABLES
    pc,         \* position of main / generate_all_resumes
    vi,         \* position in the `variations` schedule (outer loop)
    cnt,        \* iterations done for the current preset (inner loop)
    index,      \* the running file index
    dataset,    \* the manifest records accumulated so far
    files,      \* the output directory: file name -> content
    data,       \* local `data` of the current unit
    config,     \* local `config` of the current unit
    img,        \* local `img` of the current unit
    jsonl,      \* the manifest file
    err,        \* the exception in flight, "none" when there is none
    rng,        \* state of the process-wide random generator
    draws,      \* number of values drawn from it so far
    mincho_ok,  \* the file FONT_MINCHO can be loaded
    gothic_ok,  \* the file FONT_GOTHIC can be loaded
    raster,     \* _add_noise: the pixels of its argument
    before,     \* _add_noise: the pixels of its argument at the call
    phase,      \* _add_noise: position in the function
    left        \* _add_noise: iterations left in the current loop

vars == <<pc, vi, cnt, index, dataset, files, data, config, img, jsonl, err,
          rng, draws, mincho_ok, gothic_ok, raster, before, phase, left>>

batchVars == <<pc, vi, cnt, index, dataset, files, data, config, img, jsonl,
               err, rng, draws, mincho_ok, gothic_ok>>

noiseVars == <<raster, before, phase, left>>

(***************************************************************************)
(* Bounds                                                                  *)
(***************************************************************************)
\* Bits of significand of the modelled binary floating-point format, and
\* bits of the fraction random() returns (53 in CPython).
MantBits == 4

\* Width of the rasters _add_noise is run on; they have two rows.
ImgW == 3

(***************************************************************************)
(* The random generator                                                    *)
(***************************************************************************)
RECURSIVE Pow2(_)
Pow2(n) == IF n = 0 THEN 1 ELSE 2 * Pow2(n - 1)

\* Number of generator states; random() returns rng / RngMod, in [0, 1).
RngMod == Pow2(MantBits)

\* One draw advances the generator (a full-period congruential step).
RngNext(r) == (5 * r + 3) % RngMod

RECURSIVE Iterate(_, _)
Iterate(r, k) == IF k = 0 THEN r ELSE Iterate(RngNext(r), k - 1)

\* The state after k draws; the generator has period RngMod.
Advance(r, k) == Iterate(r, k % RngMod)

\* random.randint(a, b) on generator state r.
RandInt(a, b, r) == a + (r * (b - a + 1)) \div RngMod

\* random.choice(seq) on generator state r.
Choice(seq, r) == seq[1 + (r * Len(seq)) \div RngMod]

(***************************************************************************)
(* Floating point.  A value is an integer count of units of                *)
(* 2^-(MantBits+1); a representable value has at most MantBits significant *)
(* bits.                                                                   *)
(***************************************************************************)
RECURSIVE BitLen(_)
BitLen(n) == IF n = 0 THEN 0 ELSE 1 + BitLen(n \div 2)

\* Round to nearest representable value, ties to even.
RoundFloat(n) ==
    IF BitLen(n) <= MantBits THEN n
    ELSE LET q   == Pow2(BitLen(n) - MantBits)
             lo  == (n \div q) * q
             rem == n - lo
         IN  IF 2 * rem < q THEN lo
             ELSE IF 2 * rem > q THEN lo + q
             ELSE IF (n \div q) % 2 = 0 THEN lo ELSE lo + q

\* The float with value h / 2 (h halves).
Halves(h) == h * RngMod

UniformFromZero(a2, b2, r) == RoundFloat(Halves(a2) + RoundFloat(b2 * r))

\* random.uniform(a, b) == a + (b - a) * random(), for a = a2/2, b = b2/2:
\* the product and the sum are each rounded.
Uniform(a2, b2, r) == RoundFloat(Halves(a2) + RoundFloat((b2 - a2) * r))

(***************************************************************************)
(* Sample data                                                             *)
(***************************************************************************)
LAST_NAMES ==
    <<"Yamada", "Sato", "Suzuki", "Tanaka", "Takahashi", "Ito", "Watanabe",
      "Nakamura", "Kobayashi", "Kato", "Yoshida", "Yamamoto", "Matsumoto",
      "Inoue", "Kimura", "Hayashi", "Saito", "Shimizu", "Yamazaki", "Mori">>

FIRST_NAMES_MALE ==
    <<"Taro", "Ichiro", "Kenta", "Shota", "Daisuke", "Naoki", "Takuya",
      "Kazuya", "Tatsuya", "Yuta">>

FIRST_NAMES_FEMALE ==
    <<"Hanako", "Misaki", "Ai", "Sakura", "Yoko", "Mayumi", "Yuko", "Keiko",
      "Akemi", "Yumi">>

PREFECTURES ==
    << <<"Tokyo-to", <<"Shibuya-ku", "Shinjuku-ku", "Minato-ku", "Chiyoda-ku",
                       "Chuo-ku", "Setagaya-ku", "Meguro-ku">> >>,
       <<"Osaka-fu", <<"Osaka-shi Kita-ku", "Osaka-shi Chuo-ku",
                       "Osaka-shi Nishi-ku", "Sakai-shi", "Toyonaka-shi">> >>,
       <<"Aichi-ken", <<"Nagoya-shi Naka-ku", "Nagoya-shi Higashi-ku",
                        "Nagoya-shi Nishi-ku", "Toyota-shi", "Okazaki-shi">> >>,
       <<"Fukuoka-ken", <<"Fukuoka-shi Hakata-ku", "Fukuoka-shi Chuo-ku",
                          "Kitakyushu-shi", "Kurume-shi">> >>,
       <<"Hokkaido", <<"Sapporo-shi Chuo-ku", "Sapporo-shi Kita-ku",
                       "Hakodate-shi", "Asahikawa-shi">> >>,
       <<"Kanagawa-ken", <<"Yokohama-shi Nishi-ku", "Yokohama-shi Naka-ku",
                           "Kawasaki-shi", "Sagamihara-shi">> >>,
       <<"Saitama-ken", <<"Saitama-shi Omiya-ku", "Saitama-shi Urawa-ku",
                          "Kawaguchi-shi", "Tokorozawa-shi">> >>,
       <<"Chiba-ken", <<"Chiba-shi Chuo-ku", "Funabashi-shi", "Ichikawa-shi",
                        "Kashiwa-shi">> >>,
       <<"Hyogo-ken", <<"Kobe-shi Chuo-ku", "Himeji-shi", "Nishinomiya-shi",
                        "Amagasaki-shi">> >>,
       <<"Kyoto-fu", <<"Kyoto-shi Nakagyo-ku", "Kyoto-shi Shimogyo-ku",
                       "Uji-shi", "Maizuru-shi">> >> >>

\* str(n) of a non-negative integer: its decimal digits.
Digit(d) == <<"0", "1", "2", "3", "4", "5", "6", "7", "8", "9">>[d + 1]

RECURSIVE IntStr(_)
IntStr(n) == IF n < 10 THEN <<Digit(n)>>
             ELSE Append(IntStr(n \div 10), Digit(n % 10))

\* Values drawn by one call of generate_random_resume_data.
DataDraws == 11

\* generate_random_resume_data() on generator state r.  The i-th draw of
\* the call (from 0) sees the state Advance(r, i).
GenerateRandomResumeData(r) ==
    LET last_name  == Choice(LAST_NAMES, Advance(r, 0))
        is_male    == Choice(<<TRUE, FALSE>>, Advance(r, 1))
        first_name == Choice(IF is_male THEN FIRST_NAMES_MALE
                                        ELSE FIRST_NAMES_FEMALE, Advance(r, 2))
        year       == RandInt(1970, 2000, Advance(r, 3))
        month      == RandInt(1, 12, Advance(r, 4))
        day        == RandInt(1, 28, Advance(r, 5))
        pref       == Choice(PREFECTURES, Advance(r, 6))
        city       == Choice(pref[2], Advance(r, 7))
        chome      == RandInt(1, 5, Advance(r, 8))
        ban        == RandInt(1, 20, Advance(r, 9))
        go         == RandInt(1, 30, Advance(r, 10))
    IN  [name       |-> <<last_name, first_name>>,
         birth_date |-> IntStr(year) \o <<"nen">> \o IntStr(month)
                        \o <<"gatsu">> \o IntStr(day) \o <<"nichi">>,
         address    |-> <<pref[1], city>> \o IntStr(chome) \o <<"-">>
                        \o IntStr(ban) \o <<"-">> \o IntStr(go)]

NoData == [name |-> <<>>, birth_date |-> <<>>, address |-> <<>>]

(***************************************************************************)
(* Variation catalog                                                       *)
(***************************************************************************)
VariationType ==
    {"standard", "handwritten", "faded", "tilted", "noisy", "blurred",
     "heavy_lines", "small_font", "mixed_font", "complex"}

\* The dataclass defaults of VariationConfig.  rotation_angle is a float in
\* the units above; blur_radius is in tenths.
VariationConfig(v) ==
    [variation_type |-> v, font_size |-> 12, text_color |-> <<0, 0, 0>>,
     rotation_angle |-> 0, add_noise |-> FALSE, blur_radius |-> 0,
     line_thickness |-> 1, use_gothic |-> FALSE]

ConfigDrawsLazy(v) == IF v \in {"tilted", "complex"} THEN 1 ELSE 0

\* Values get_variation_config(v) draws: the whole dict is built before the
\* lookup, so both random.uniform calls run whatever v is.
ConfigDraws(v) == 2

\* The dict `configs` built on generator state r.
Configs(r) ==
    [v \in VariationType |->
        CASE v = "standard"    -> [VariationConfig(v) EXCEPT !.font_size = 14]
          [] v = "handwritten" -> [VariationConfig(v) EXCEPT !.font_size = 14]
          [] v = "faded"       -> [VariationConfig(v) EXCEPT
                                      !.font_size = 14,
                                      !.text_color = <<150, 150, 150>>]
          [] v = "tilted"      -> [VariationConfig(v) EXCEPT
                                      !.font_size = 14,
                                      !.rotation_angle = Uniform(3, 6, r)]
          [] v = "noisy"       -> [VariationConfig(v) EXCEPT
                                      !.font_size = 14, !.add_noise = TRUE]
          [] v = "blurred"     -> [VariationConfig(v) EXCEPT
                                      !.font_size = 14, !.blur_radius = 12]
          [] v = "heavy_lines" -> [VariationConfig(v) EXCEPT
                                      !.font_size = 14, !.line_thickness = 3]
          [] v = "small_font"  -> [VariationConfig(v) EXCEPT !.font_size = 9]
          [] v = "mixed_font"  -> [VariationConfig(v) EXCEPT
                                      !.font_size = 14, !.use_gothic = TRUE]
          [] v = "complex"     -> [VariationConfig(v) EXCEPT
                                      !.font_size = 12,
                                      !.text_color = <<120, 120, 120>>,
                                      !.rotation_angle =
                                          Uniform(2, 4, RngNext(r)),
                                      !.add_noise = TRUE,
                                      !.blur_radius = 5]]

\* get_variation_config(v) on generator state r: the configuration returned.
GetVariationConfig(v, r) == Configs(r)[v]

NoConfig == VariationConfig("none")

GetDifficultyNoisyMedium(v) ==
    CASE v = "standard" -> "easy"
      [] v \in {"blurred", "complex"} -> "hard"
      [] OTHER -> "medium"

\* _get_difficulty
GetDifficulty(v) ==
    CASE v = "standard"    -> "easy"
      [] v = "handwritten" -> "medium"
      [] v = "faded"       -> "medium"
      [] v = "tilted"      -> "medium"
      [] v = "noisy"       -> "hard"
      [] v = "blurred"     -> "hard"
      [] v = "heavy_lines" -> "medium"
      [] v = "small_font"  -> "medium"
      [] v = "mixed_font"  -> "medium"
      [] v = "complex"     -> "hard"

(***************************************************************************)
(* Page renderer                                                           *)
(***************************************************************************)
\* ImageFont.truetype(path, size): the font, or OSError when the file
\* cannot be loaded.
Truetype(path, size, mOK, gOK) ==
    IF (path = "FONT_MINCHO" /\ mOK) \/ (path = "FONT_GOTHIC" /\ gOK)
    THEN [face |-> path, size |-> size]
    ELSE [face |-> "OSError", size |-> size]

\* ImageFont.load_default()
LoadDefault == [face |-> "default", size |-> 0]

LoadFontsPartialFallback(c, mOK, gOK) ==
    LET font_path == IF c.use_gothic THEN "FONT_GOTHIC" ELSE "FONT_MINCHO"
        want == [title |-> [face |-> font_path, size |-> 24],
                 label |-> [face |-> font_path, size |-> c.font_size],
                 value |-> [face |-> font_path, size |-> c.font_size + 2]]
    IN  IF Truetype(font_path, 24, mOK, gOK).face = "OSError"
        THEN [want EXCEPT !.value = LoadDefault]
        ELSE want

\* The try/except that loads the title, label and value fonts.
LoadFonts(c, mOK, gOK) ==
    LET font_path  == IF c.use_gothic THEN "FONT_GOTHIC" ELSE "FONT_MINCHO"
        font_title == Truetype(font_path, 24, mOK, gOK)
        font_label == Truetype(font_path, c.font_size, mOK, gOK)
        font_value == Truetype(font_path, c.font_size + 2, mOK, gOK)
    IN  IF "OSError" \in {font_title.face, font_label.face, font_value.face}
        THEN [title |-> LoadDefault, label |-> LoadDefault,
              value |-> LoadDefault]
        ELSE [title |-> font_title, label |-> font_label,
              value |-> font_value]

\* The font the value of row i (from 0) is drawn with.
RowValueFont(c, i, font_value, mOK, gOK) ==
    IF c.use_gothic /\ i % 2 = 0
    THEN LET font_value_alt ==
                 Truetype("FONT_MINCHO", c.font_size + 2, mOK, gOK)
         IN  IF font_value_alt.face = "OSError" THEN font_value
             ELSE font_value_alt
    ELSE font_value

ApplyEffectsBlurFirst(c) ==
    (IF c.blur_radius >= 0
     THEN << [op |-> "blur", arg |-> c.blur_radius] >> ELSE << >>)
    \o (IF c.add_noise THEN << [op |-> "noise", arg |-> 0] >> ELSE << >>)
    \o (IF c.rotation_angle # 0
        THEN << [op |-> "rotate", arg |-> c.rotation_angle] >> ELSE << >>)

\* The transforms create_resume_image applies to the drawn page, in order.
ApplyEffects(c) ==
    (IF c.add_noise THEN << [op |-> "noise", arg |-> 0] >> ELSE << >>)
    \o (IF c.blur_radius > 0
        THEN << [op |-> "blur", arg |-> c.blur_radius] >> ELSE << >>)
    \o (IF c.rotation_angle # 0
        THEN << [op |-> "rotate", arg |-> c.rotation_angle] >> ELSE << >>)

\* create_resume_image(data, config): what was drawn and which transforms
\* were applied.
CreateResumeImage(d, c, mOK, gOK) ==
    LET fonts  == LoadFonts(c, mOK, gOK)
        fields == << <<"shimei", d.name>>, <<"seinengappi", d.birth_date>>,
                     <<"jusho", d.address>> >>
    IN  [width |-> 595, height |-> 842,
         line_width |-> c.line_thickness, text_color |-> c.text_color,
         font_title |-> fonts.title, font_label |-> fonts.label,
         rows |-> [i \in 1..3 |->
                     [label |-> fields[i][1], value |-> fields[i][2],
                      font |-> RowValueFont(c, i - 1, fonts.value, mOK, gOK)]],
         ops |-> ApplyEffects(c)]

NoImage ==
    [width |-> 0, height |-> 0, line_width |-> 0, text_color |-> <<>>,
     font_title |-> LoadDefault, font_label |-> LoadDefault, rows |-> <<>>,
     ops |-> <<>>]

\* Values _add_noise draws on generator state r: the two loop counts, four
\* values per speck and five per stain.
NoiseDraws(r) ==
    LET n == RandInt(50, 150, r)
        m == RandInt(3, 8, Advance(r, 1 + 4 * n))
    IN  2 + 4 * n + 5 * m

\* Values create_resume_image draws for configuration c.
RenderDraws(c, r) == IF c.add_noise THEN NoiseDraws(r) ELSE 0

(***************************************************************************)
(* Batch driver                                                            *)
(***************************************************************************)
variationsThreeStandard ==
    << <<"standard", 3>>, <<"handwritten", 2>>, <<"faded", 2>>,
       <<"tilted", 2>>, <<"noisy", 2>>, <<"blurred", 2>>,
       <<"heavy_lines", 2>>, <<"small_font", 2>>, <<"mixed_font", 2>>,
       <<"complex", 2>> >>

\* The schedule `variations` of generate_all_resumes.
variations ==
    << <<"standard", 2>>, <<"handwritten", 2>>, <<"faded", 2>>,
       <<"tilted", 2>>, <<"noisy", 2>>, <<"blurred", 2>>,
       <<"heavy_lines", 2>>, <<"small_font", 2>>, <<"mixed_font", 2>>,
       <<"complex", 2>> >>

\* The loop variable variation_type.
variation_type == variations[vi][1]

\* gcs_bucket_prefix of main.
GcsBucketPrefix == "gs://your-bucket/resumes"

\* format(n, "03d"): the digits of n, zero-padded on the left to width 3.
Pad3(n) ==
    LET s == IntStr(n)
    IN  IF Len(s) >= 3 THEN s
        ELSE [i \in 1..(3 - Len(s)) |-> "0"] \o s

FilenamePerPreset(i, v) == <<"resume_">> \o Pad3(cnt + 1) \o <<"_", v, ".pdf">>

\* f"resume_{index:03d}_{variation_type.value}.pdf"
Filename(i, v) == <<"resume_">> \o Pad3(i) \o <<"_", v, ".pdf">>

TargetTextSwapped(d) ==
    <<"shimei: ">> \o d.name \o <<"\n", "seinengappi: ">> \o d.address
        \o <<"\n", "jusho: ">> \o d.birth_date

\* The f-string `target`: three labelled lines joined by newlines.
TargetText(d) ==
    <<"shimei: ">> \o d.name \o <<"\n", "seinengappi: ">> \o d.birth_date
        \o <<"\n", "jusho: ">> \o d.address

\* The dict appended to dataset for the current unit.
Record(i, v, d) ==
    [input_pdf  |-> <<GcsBucketPrefix, "/">> \o Filename(i, v),
     target     |-> TargetText(d),
     variation  |-> v,
     difficulty |-> GetDifficulty(v)]

\* json.dumps(item): the members in insertion order.
JsonDumps(item) ==
    << <<"input_pdf", item.input_pdf>>, <<"target", item.target>>,
       <<"variation", item.variation>>, <<"difficulty", item.difficulty>> >>

PcAfterErrorSwallowed == "append"

\* Where control goes when a statement of a unit raises: the loops have no
\* handler, and neither has main.
PcAfterError == "aborted"

NoJsonl == [written |-> FALSE, lines |-> <<>>]

BatchInit ==
    /\ pc = "main"
    /\ vi = 1
    /\ cnt = 0
    /\ index = 0
    /\ dataset = <<>>
    /\ files = <<>>
    /\ data = NoData
    /\ config = NoConfig
    /\ img = NoImage
    /\ jsonl = NoJsonl
    /\ err = "none"
    /\ rng \in 0..(RngMod - 1)
    /\ draws = 0
    /\ mincho_ok \in BOOLEAN
    /\ gothic_ok \in BOOLEAN

NoiseIdle ==
    /\ raster = <<>>
    /\ before = <<>>
    /\ phase = "idle"
    /\ left = 0

Init == BatchInit /\ NoiseIdle

\* main calls generate_all_resumes: mkdir, dataset = [], index = 1.
Start ==
    /\ pc = "main"
    /\ pc' = "gen"
    /\ index' = 1
    /\ dataset' = <<>>
    /\ UNCHANGED <<vi, cnt, files, data, config, img, jsonl, err, rng, draws,
                   mincho_ok, gothic_ok>>
    /\ UNCHANGED noiseVars

\* data = generate_random_resume_data()
GenData ==
    /\ pc = "gen"
    /\ data' = GenerateRandomResumeData(rng)
    /\ rng' = Advance(rng, DataDraws)
    /\ draws' = draws + DataDraws
    /\ pc' = "cfg"
    /\ UNCHANGED <<vi, cnt, index, dataset, files, config, img, jsonl, err,
                   mincho_ok, gothic_ok>>
    /\ UNCHANGED noiseVars

\* config = get_variation_config(variation_type)
GetConfig ==
    /\ pc = "cfg"
    /\ config' = GetVariationConfig(variation_type, rng)
    /\ rng' = Advance(rng, ConfigDraws(variation_type))
    /\ draws' = draws + ConfigDraws(variation_type)
    /\ pc' = "render"
    /\ UNCHANGED <<vi, cnt, index, dataset, files, data, img, jsonl, err,
                   mincho_ok, gothic_ok>>
    /\ UNCHANGED noiseVars

\* img = create_resume_image(data, config)
Render ==
    /\ pc = "render"
    /\ img' = CreateResumeImage(data, config, mincho_ok, gothic_ok)
    /\ rng' = Advance(rng, RenderDraws(config, rng))
    /\ draws' = draws + RenderDraws(config, rng)
    /\ pc' = "pdf"
    /\ UNCHANGED <<vi, cnt, index, dataset, files, data, config, jsonl, err,
                   mincho_ok, gothic_ok>>
    /\ UNCHANGED noiseVars

\* create_resume_image raises something other than the OSError of a font
\* load (for instance MemoryError in Image.new).
RenderError ==
    /\ pc = "render"
    /\ err' = "render"
    /\ pc' = PcAfterError
    /\ UNCHANGED <<vi, cnt, index, dataset, files, data, config, img, jsonl,
                   rng, draws, mincho_ok, gothic_ok>>
    /\ UNCHANGED noiseVars

\* The directory with the file `name` holding `content`.
WriteFile(dir, name, content) ==
    [f \in DOMAIN dir \cup {name} |->
        IF f = name THEN content ELSE dir[f]]

\* image_to_pdf(img, output_path): the page encoded at 150 dpi.
SavePdf ==
    /\ pc = "pdf"
    /\ files' = WriteFile(files, Filename(index, variation_type),
                          [page |-> img, resolution |-> 150,
                           complete |-> TRUE])
    /\ pc' = "append"
    /\ UNCHANGED <<vi, cnt, index, dataset, data, config, img, jsonl, err,
                   rng, draws, mincho_ok, gothic_ok>>
    /\ UNCHANGED noiseVars

\* image_to_pdf raises: in img.save or in open() nothing is written; in
\* f.write() the file exists and is incomplete.
PdfError ==
    /\ pc = "pdf"
    /\ \E stage \in {"save", "open", "write"} :
          /\ err' = stage
          /\ files' = IF stage = "write"
                      THEN WriteFile(files, Filename(index, variation_type),
                                     [page |-> NoImage, resolution |-> 150,
                                      complete |-> FALSE])
                      ELSE files
    /\ pc' = PcAfterError
    /\ UNCHANGED <<vi, cnt, index, dataset, data, config, img, jsonl, rng,
                   draws, mincho_ok, gothic_ok>>
    /\ UNCHANGED noiseVars

\* index += 1
NextIndex(i) == i + 1

\* dataset.append({...}); index += 1; then the loop heads: the next
\* iteration of the inner loop, the next preset, or return dataset.
AppendRecord ==
    /\ pc = "append"
    /\ dataset' = Append(dataset, Record(index, variation_type, data))
    /\ index' = NextIndex(index)
    /\ IF cnt + 1 < variations[vi][2]
       THEN /\ cnt' = cnt + 1
            /\ vi' = vi
            /\ pc' = "gen"
       ELSE IF vi < Len(variations)
       THEN /\ cnt' = 0
            /\ vi' = vi + 1
            /\ pc' = "gen"
       ELSE /\ cnt' = cnt + 1
            /\ vi' = vi
            /\ pc' = "jsonl"
    /\ UNCHANGED <<files, data, config, img, jsonl, err, rng, draws,
                   mincho_ok, gothic_ok>>
    /\ UNCHANGED noiseVars

\* save_jsonl(dataset, JSONL_PATH), then main's closing messages.
SaveJsonl ==
    /\ pc = "jsonl"
    /\ jsonl' = [written |-> TRUE,
                 lines |-> [k \in 1..Len(dataset) |-> JsonDumps(dataset[k])]]
    /\ pc' = "done"
    /\ UNCHANGED <<vi, cnt, index, dataset, files, data, config, img, err,
                   rng, draws, mincho_ok, gothic_ok>>
    /\ UNCHANGED noiseVars

Next ==
    \/ Start
    \/ GenData
    \/ GetConfig
    \/ Render
    \/ RenderError
    \/ SavePdf
    \/ PdfError
    \/ AppendRecord
    \/ SaveJsonl

Spec == Init /\ [][Next]_vars

(***************************************************************************)
(* Properties of the batch                                                 *)
(***************************************************************************)
\* The file name a manifest record points to: input_pdf without the bucket
\* prefix and the slash.
RecordFile(rec) == SubSeq(rec.input_pdf, 3, Len(rec.input_pdf))

\* The index digits of a file name of the form resume_<digits>_<preset>.pdf
NameIndex(f) == SubSeq(f, 2, Len(f) - 3)

\* The three-digit decimal numeral of k, for k < 100.
Numeral3(k) == <<"0", Digit(k \div 10), Digit(k % 10)>>

\* str.split("\n") of a string given as a sequence of pieces.
RECURSIVE Lines(_)
Lines(s) ==
    IF s = <<>> THEN << <<>> >>
    ELSE LET rest == Lines(Tail(s))
         IN  IF Head(s) = "\n" THEN << <<>> >> \o rest
             ELSE << <<Head(s)>> \o rest[1] >> \o Tail(rest)

\* C1: when the batch has run to completion with the default schedule, the
\* output directory holds exactly 20 files whose indices are 001..020, and
\* the manifest has exactly 20 records, each with the four keys input_pdf,
\* target, variation, difficulty and a difficulty among easy, medium, hard.
C1_BatchOutput ==
    pc = "done" =>
        /\ Cardinality(DOMAIN files) = 20
        /\ {NameIndex(f) : f \in DOMAIN files} = {Numeral3(k) : k \in 1..20}
        /\ \A f \in DOMAIN files : files[f].complete
        /\ Len(dataset) = 20
        /\ jsonl.written
        /\ Len(jsonl.lines) = 20
        /\ \A k \in 1..20 :
              /\ DOMAIN dataset[k] =
                     {"input_pdf", "target", "variation", "difficulty"}
              /\ dataset[k].difficulty \in {"easy", "medium", "hard"}
              /\ {m[1] : m \in {jsonl.lines[k][i] : i \in 1..Len(jsonl.lines[k])}}
                     = {"input_pdf", "target", "variation", "difficulty"}

C1_Witness == pc = "done" /\ jsonl.written /\ Len(dataset) = 20

\* C2: the k-th manifest record names the file resume_<k as 3 digits>_<its
\* variation>.pdf, that file has been written, and the counter is always one
\* more than the number of records: it starts at 1, moves once per file and
\* is not reset between presets.
C2_Lockstep ==
    pc # "main" =>
        /\ index = Len(dataset) + 1
        /\ \A k \in 1..Len(dataset) :
              /\ dataset[k].input_pdf =
                     <<GcsBucketPrefix, "/", "resume_">> \o Numeral3(k)
                         \o <<"_", dataset[k].variation, ".pdf">>
              /\ RecordFile(dataset[k]) \in DOMAIN files

C2_Witness ==
    /\ Len(dataset) = 3
    /\ dataset[3].variation = "handwritten"
    /\ index = 4

\* C3: every record's difficulty is the fixed label of its preset (easy:
\* standard; hard: noisy, blurred, complex; medium: the other six), and the
\* first record is resume_001_standard.pdf with difficulty easy.
C3_Difficulty ==
    /\ \A k \in 1..Len(dataset) :
          LET v == dataset[k].variation
              d == dataset[k].difficulty
          IN  /\ (v = "standard") => d = "easy"
              /\ (v \in {"handwritten", "faded", "tilted", "heavy_lines",
                         "small_font", "mixed_font"}) => d = "medium"
              /\ (v \in {"noisy", "blurred", "complex"}) => d = "hard"
              /\ v \in VariationType
    /\ Len(dataset) >= 1 =>
          /\ RecordFile(dataset[1]) =
                 <<"resume_", "0", "0", "1", "_", "standard", ".pdf">>
          /\ dataset[1].difficulty = "easy"

C3_Witness ==
    /\ Len(dataset) = 20
    /\ {dataset[k].variation : k \in 1..20} = VariationType

\* C4: every record's target is exactly three lines, the name, birth date
\* and address labels each followed by the value that was drawn into the
\* page stored under that record's file name.
C4_TargetMatchesPage ==
    \A k \in 1..Len(dataset) :
        LET f == RecordFile(dataset[k])
        IN  /\ f \in DOMAIN files
            /\ files[f].complete
            /\ Lines(dataset[k].target) =
                   << <<"shimei: ">> \o files[f].page.rows[1].value,
                      <<"seinengappi: ">> \o files[f].page.rows[2].value,
                      <<"jusho: ">> \o files[f].page.rows[3].value >>

C4_Witness ==
    /\ Len(dataset) = 2
    /\ dataset[1].target # dataset[2].target

\* C5: the transforms applied to a rendered page are in the order noise,
\* blur, rotation, each at most once, and each exactly when the
\* configuration enables it: noise iff add_noise, blur iff blur_radius > 0,
\* rotation iff rotation_angle # 0; the standard preset gets none.
C5_EffectOrder ==
    pc \in {"pdf", "append"} =>
        LET ops  == img.ops
            rank == [o \in {"noise", "blur", "rotate"} |->
                        IF o = "noise" THEN 1 ELSE IF o = "blur" THEN 2 ELSE 3]
            has(o) == \E i \in 1..Len(ops) : ops[i].op = o
        IN  /\ \A i, j \in 1..Len(ops) :
                  i < j => rank[ops[i].op] < rank[ops[j].op]
            /\ has("noise") <=> config.add_noise
            /\ has("blur") <=> config.blur_radius > 0
            /\ has("rotate") <=> config.rotation_angle # 0
            /\ config.variation_type = "standard" => ops = <<>>

C5_Witness ==
    /\ pc = "pdf"
    /\ config.variation_type = "complex"
    /\ Len(img.ops) = 3

\* C6 as stated: the angle of a tilted configuration is in [1.5, 3.0) and
\* that of a complex configuration in [1.0, 2.0), upper bound excluded.
C6_HalfOpenRange ==
    pc = "render" =>
        /\ config.variation_type = "tilted" =>
              (Halves(3) <= config.rotation_angle
                  /\ config.rotation_angle < Halves(6))
        /\ config.variation_type = "complex" =>
              (Halves(2) <= config.rotation_angle
                  /\ config.rotation_angle < Halves(4))

\* C6 amended: the angle of a tilted configuration is in the closed range
\* [1.5, 3.0] and that of a complex configuration in [1.0, 2.0]; rounding
\* can return the upper bound.
C6_ClosedRange ==
    pc = "render" =>
        /\ config.variation_type = "tilted" =>
              (Halves(3) <= config.rotation_angle
                  /\ config.rotation_angle <= Halves(6))
        /\ config.variation_type = "complex" =>
              (Halves(2) <= config.rotation_angle
                  /\ config.rotation_angle <= Halves(4))

C6_Witness ==
    /\ pc = "render"
    /\ config.variation_type = "tilted"
    /\ config.rotation_angle = Halves(6)

\* What holds once a unit has raised.
AbortedState ==
    /\ pc = "aborted"
    /\ ~jsonl.written
    /\ Len(dataset) = index - 1
    /\ \A k \in 1..(index - 1) :
          /\ RecordFile(dataset[k]) \in DOMAIN files
          /\ files[RecordFile(dataset[k])].complete
    /\ \A f \in DOMAIN files :
          \E k \in 1..index : NameIndex(f) = Numeral3(k)

\* C8: once a unit k raises an error other than a font-load failure the
\* batch is over: control is at the abort, the manifest file is not
\* written, the k-1 earlier files are still there and complete, no file of
\* a later unit exists, and nothing happens any more.
C8_ErrorAborts ==
    /\ [](err # "none" => AbortedState)
    /\ [][err = "none"]_vars

C8_Witness ==
    /\ err = "write"
    /\ index = 5
    /\ Cardinality(DOMAIN files) = 5

\* C9: a font-load failure never leaves the renderer: the title, label and
\* value fonts are either all the configured face or all the built-in one;
\* with use_gothic the values of rows 0 and 2 are in the Mincho face when it
\* loads and in the value font otherwise; and the renderer can return
\* whichever of the two font files exist.
C9_FontFallback ==
    /\ pc = "render" => ENABLED Render
    /\ pc \in {"pdf", "append"} =>
          LET path  == IF config.use_gothic THEN "FONT_GOTHIC"
                       ELSE "FONT_MINCHO"
              ok    == IF config.use_gothic THEN gothic_ok ELSE mincho_ok
              three == {img.font_title.face, img.font_label.face,
                        img.rows[2].font.face}
          IN  /\ three = (IF ok THEN {path} ELSE {"default"})
              /\ \A i \in {1, 3} :
                    img.rows[i].font =
                        IF config.use_gothic /\ mincho_ok
                        THEN [face |-> "FONT_MINCHO",
                              size |-> config.font_size + 2]
                        ELSE img.rows[2].font
              /\ \A i \in 1..3 : img.rows[i].font.face # "OSError"

C9_Witness ==
    /\ pc = "pdf"
    /\ config.use_gothic
    /\ ~gothic_ok
    /\ mincho_ok
    /\ img.rows[1].font.face = "FONT_MINCHO"
    /\ img.rows[2].font.face = "default"

\* C10: each get_variation_config call draws exactly two values whatever
\* the preset; tilted takes its angle from the first and complex from the
\* second; the other eight configurations are the same for every generator
\* state; and the configuration returned carries the requested preset.
C10_ConfigDraws ==
    [][(pc = "cfg" /\ pc' = "render") =>
          /\ draws' = draws + 2
          /\ rng' = RngNext(RngNext(rng))
          /\ config'.variation_type = variation_type
          /\ variation_type = "tilted" =>
                config'.rotation_angle = Uniform(3, 6, rng)
          /\ variation_type = "complex" =>
                config'.rotation_angle = Uniform(2, 4, RngNext(rng))
          /\ variation_type \notin {"tilted", "complex"} =>
                \A r \in 0..(RngMod - 1) :
                    GetVariationConfig(variation_type, r) = config'
      ]_vars

C10_Witness ==
    /\ pc = "render"
    /\ variation_type = "noisy"
    /\ draws > 0
    /\ config.variation_type = "noisy"

(***************************************************************************)
(* _add_noise on a raster.  A pixel is its gray level (r = g = b), 255 is  *)
(* white.  The raster and the lengths are scaled down: ImgW x 2 pixels, one *)
(* or two specks and stains instead of 50..150 and 3..8, and the two ends  *)
(* of each range of grays.                                                 *)
(***************************************************************************)
Pixels == (0..(ImgW - 1)) \X (0..1)

White == 255

\* random.randint(50, 150) and random.randint(3, 8), scaled.
SpeckCounts == {1, 2}

StainCounts == {1, 2}

\* size of a speck: random.randint(1, 3), scaled.
SpeckSizes == {1, 2}

\* gray of a speck is in 180..220 and of a stain in 230..245.
SpeckGrays == {180, 220}

StainGrays == {230, 245}

\* Origins of a stain, kept away from the right and lower edges.
StainXs == 0..(ImgW - 2)

StainYs == {0}

\* Width and height of a stain, scaled.
StainWs == {1, 2}

StainHs == {1}

\* The pixels of the raster inside the bounding box [x0, y0, x1, y1] that
\* draw.ellipse fills.
Ellipse(x0, y0, x1, y1) ==
    {p \in Pixels : x0 <= p[1] /\ p[1] <= x1 /\ y0 <= p[2] /\ p[2] <= y1}

FillWhite(r, px, gray) == [p \in Pixels |-> IF p \in px THEN White ELSE r[p]]

\* draw.ellipse(box, fill=(gray, gray, gray)) on raster r.
Fill(r, px, gray) == [p \in Pixels |-> IF p \in px THEN gray ELSE r[p]]

\* Number of non-white pixels of raster r.
NonWhite(r) == Cardinality({p \in Pixels : r[p] # White})

BatchIdle ==
    /\ pc = "add_noise"
    /\ vi = 1
    /\ cnt = 0
    /\ index = 0
    /\ dataset = <<>>
    /\ files = <<>>
    /\ data = NoData
    /\ config = NoConfig
    /\ img = NoImage
    /\ jsonl = NoJsonl
    /\ err = "none"
    /\ rng = 0
    /\ draws = 0
    /\ mincho_ok = TRUE
    /\ gothic_ok = TRUE

\* _add_noise is called on any black and white raster.
NoiseInit ==
    /\ BatchIdle
    /\ raster \in [Pixels -> {0, White}]
    /\ before = raster
    /\ phase = "start"
    /\ left = 0

\* for _ in range(random.randint(50, 150)):
NoiseCountSpecks ==
    /\ phase = "start"
    /\ \E n \in SpeckCounts : left' = n
    /\ phase' = "specks"
    /\ UNCHANGED <<raster, before>>
    /\ UNCHANGED batchVars

\* One iteration of the first loop: a small ellipse anywhere on the page.
NoiseSpeck ==
    /\ phase = "specks"
    /\ left > 0
    /\ \E x \in 0..(ImgW - 1), y \in 0..1, gray \in SpeckGrays,
          size \in SpeckSizes :
          raster' = Fill(raster, Ellipse(x, y, x + size, y + size), gray)
    /\ left' = left - 1
    /\ UNCHANGED <<before, phase>>
    /\ UNCHANGED batchVars

\* for _ in range(random.randint(3, 8)):
NoiseCountStains ==
    /\ phase = "specks"
    /\ left = 0
    /\ \E m \in StainCounts : left' = m
    /\ phase' = "stains"
    /\ UNCHANGED <<raster, before>>
    /\ UNCHANGED batchVars

\* One iteration of the second loop: a larger, lighter ellipse.
NoiseStain ==
    /\ phase = "stains"
    /\ left > 0
    /\ \E x \in StainXs, y \in StainYs, w \in StainWs, h \in StainHs,
          gray \in StainGrays :
          raster' = Fill(raster, Ellipse(x, y, x + w, y + h), gray)
    /\ left' = left - 1
    /\ UNCHANGED <<before, phase>>
    /\ UNCHANGED batchVars

\* return img
NoiseReturn ==
    /\ phase = "stains"
    /\ left = 0
    /\ phase' = "done"
    /\ UNCHANGED <<raster, before, left>>
    /\ UNCHANGED batchVars

NoiseNext ==
    \/ NoiseCountSpecks
    \/ NoiseSpeck
    \/ NoiseCountStains
    \/ NoiseStain
    \/ NoiseReturn

SpecNoise == NoiseInit /\ [][NoiseNext]_vars

\* C7 as stated: the image _add_noise returns has strictly more non-white
\* pixels than the image it was given, whatever that image is.
C7_StrictlyMore ==
    phase = "done" => NonWhite(raster) > NonWhite(before)

\* C7 amended: _add_noise never lowers the number of non-white pixels, no
\* pixel that was not white becomes white, and the number grows by exactly
\* the number of white pixels an ellipse covered: it is strictly larger only
\* when at least one covered pixel was white.
C7_NeverFewer ==
    /\ NonWhite(raster) >= NonWhite(before)
    /\ \A p \in Pixels : before[p] # White => raster[p] # White
    /\ NonWhite(raster) = NonWhite(before)
           + Cardinality({p \in Pixels :
                             before[p] = White /\ raster[p] # before[p]})

C7_Witness ==
    /\ phase = "done"
    /\ NonWhite(before) > 0
    /\ NonWhite(raster) > NonWhite(before)
    /\ \E p \in Pixels : before[p] = 0 /\ raster[p] # 0

====
